---- MODULE Spec2Model ----
(***************************************************************************)
(* The Calico installation scheduler of framework/calico_framework.py:     *)
(* the per-agent installation ladder (Agent.handle_offer), the status      *)
(* update handler (Agent.handle_update) and the scheduler's agent cache    *)
(* and restart admission (CalicoScheduler).                                *)
(*                                                                         *)
(* Python values are modelled as follows.  A Task instance is a record     *)
(* [state, restart_required]; Python's None is the record None.  A dict is *)
(* a function whose DOMAIN is its key set, so that a lookup of a missing   *)
(* key is a KeyError.  An exception that leaves a handler is the string    *)
(* naming it, in place of the handler's return value.                      *)
(***************************************************************************)
EXTENDS Naturals, FiniteSets, TLC

\* Number of cluster nodes that send offers.
NumNodes == 3
\* Largest number of task types a partial offer satisfies (the offer that
\* satisfies every task type is always included).
MaxOfferSize == 1

Nodes == 1..NumNodes

VARIABLES
    agents,     \* CalicoScheduler.agents: key -> Agent
    ret,        \* what the most recent call returned or raised
    launched    \* nodes for which handle_offer has returned a task

vars == <<agents, ret, launched>>

(***************************************************************************)
(* Task classes.  The classes live in tasks.py; only their use is in the   *)
(* source.  name keys Agent.tasks, persistent tells a daemon from a        *)
(* one-shot task, cls stands for the class object itself (a value that is  *)
(* different from every name).                                             *)
(***************************************************************************)
TaskRunEtcdProxy ==
    [name |-> "etcd-proxy", persistent |-> TRUE, cls |-> "class TaskRunEtcdProxy"]
TaskInstallNetmodules ==
    [name |-> "netmodules", persistent |-> FALSE, cls |-> "class TaskInstallNetmodules"]
TaskInstallDockerClusterStore ==
    [name |-> "docker-cluster-store", persistent |-> FALSE,
     cls |-> "class TaskInstallDockerClusterStore"]
TaskRestartComponents ==
    [name |-> "restart", persistent |-> FALSE, cls |-> "class TaskRestartComponents"]
TaskRunCalicoNode ==
    [name |-> "calico-node", persistent |-> TRUE, cls |-> "class TaskRunCalicoNode"]
TaskRunCalicoLibnetwork ==
    [name |-> "calico-libnetwork", persistent |-> TRUE,
     cls |-> "class TaskRunCalicoLibnetwork"]

TASK_CLASSES ==
    {TaskRunEtcdProxy, TaskInstallNetmodules, TaskInstallDockerClusterStore,
     TaskRestartComponents, TaskRunCalicoNode, TaskRunCalicoLibnetwork}

TaskNames == {c.name : c \in TASK_CLASSES}

\* A task-type name that no class of TASK_CLASSES carries.
UnknownName == "unknown-task"

\* Python's None, in the shape of a task slot.
None == [state |-> "None", restart_required |-> FALSE]

\* Task(agent): a new instance has seen no status update.
NewInstance == [state |-> "not-started", restart_required |-> FALSE]

running(task) == task.state = "running"
finished(task) == task.state = "finished"
failed(task) == task.state = "failed"

\* cls.can_accept_offer(offer): an offer is described by the names of the
\* task types whose resource requirements it fulfils.
can_accept_offer(cls, offer) == cls.name \in offer

AllOffers == SUBSET TaskNames
Offers == {o \in AllOffers : Cardinality(o) <= MaxOfferSize} \cup {TaskNames}

\* Status updates: the task-type name decoded from the task id, the new run
\* state and, for a finished install task, whether it asks for a restart.
RestartRelevant == {TaskInstallNetmodules.name, TaskInstallDockerClusterStore.name}
Updates ==
    {[name |-> n, state |-> s, restart_required |-> FALSE] :
        n \in TaskNames \cup {UnknownName}, s \in {"running", "finished", "failed"}}
    \cup
    {[name |-> n, state |-> "finished", restart_required |-> TRUE] :
        n \in RestartRelevant}

\* Task.name_from_task_id(update.task_id)
name_from_task_id(update) == update.name

\* task.update(update)
update_task(task, update) ==
    [state |-> update.state, restart_required |-> update.restart_required]

(***************************************************************************)
(* Agent                                                                   *)
(***************************************************************************)
\* Agent.__init__
Agent(agent_id) ==
    [agent_id |-> agent_id,
     tasks |-> [n \in TaskNames |-> None],
     restarting |-> FALSE]

\* A call's outcome: what it returned (or raised) and the agent afterwards.
Outcome(r, agent) == [ret |-> r, agent |-> agent]

\* new_task rebuilding the cache around the new task: the other slots are
\* emptied.
new_task_alone(agent, task_class) ==
    Outcome(task_class.name,
            [agent EXCEPT !.tasks =
                [k \in DOMAIN agent.tasks |->
                    IF k = task_class.name THEN NewInstance ELSE None]])

\* Agent.new_task
new_task(agent, task_class) ==
    Outcome(task_class.name,
            [agent EXCEPT !.tasks[task_class.name] = NewInstance])

\* task_needs_scheduling with the persistent branch's negation dropped.
task_needs_scheduling_running(agent, task_class) ==
    LET task == agent.tasks[task_class.name] IN
    IF task = None THEN TRUE
    ELSE IF task_class.persistent THEN running(task)
    ELSE failed(task)

\* task_needs_scheduling asking of a one-shot task that it has not finished.
task_needs_scheduling_unfinished(agent, task_class) ==
    LET task == agent.tasks[task_class.name] IN
    IF task = None THEN TRUE
    ELSE IF task_class.persistent THEN ~running(task)
    ELSE ~finished(task)

\* Agent.task_needs_scheduling
task_needs_scheduling(agent, task_class) ==
    LET task == agent.tasks[task_class.name] IN
    IF task = None THEN TRUE
    ELSE IF task_class.persistent THEN ~running(task)
    ELSE failed(task)

\* Agent.task_can_be_offered
task_can_be_offered(agent, task_class, offer) ==
    task_needs_scheduling(agent, task_class) /\ can_accept_offer(task_class, offer)

\* Agent.task_running
task_running(agent, task_class) ==
    LET task == agent.tasks[task_class.name] IN
    IF task = None THEN FALSE ELSE running(task)

\* Agent.task_finished
task_finished(agent, task_class) ==
    LET task == agent.tasks[task_class.name] IN
    IF task = None THEN FALSE ELSE finished(task)

\* restart_required_at reading no task at all: no restart is ever required.
restart_required_never(tasks, key) == "False"

\* self.tasks[key].restart_required(): "True" or "False", or the exception
\* raised: KeyError when the dict has no such key, AttributeError when the
\* slot holds None.
restart_required_at(tasks, key) ==
    IF key \notin DOMAIN tasks THEN "KeyError"
    ELSE IF tasks[key] = None THEN "AttributeError"
    ELSE IF tasks[key].restart_required THEN "True"
    ELSE "False"

\* a or b, where a and b are "True", "False" or an exception; b is only
\* evaluated when a is "False".
py_or(a, b) == IF a = "False" THEN b ELSE a

\* The part of handle_offer from the restart decision on (lines 165-198).
\* The install tasks are looked up by class object, not by name.
restart_rungs(agent, offer) ==
    LET a == restart_required_at(agent.tasks, TaskInstallNetmodules.cls)
        b == restart_required_at(agent.tasks, TaskInstallDockerClusterStore.cls)
        restart_required == py_or(a, b)
        ag == IF restart_required = "False"
              THEN [agent EXCEPT !.restarting = FALSE] ELSE agent
    IN
    IF restart_required \notin {"True", "False"} THEN Outcome(restart_required, agent)
    ELSE IF restart_required = "True"
            /\ task_can_be_offered(ag, TaskRestartComponents, offer)
         THEN \* the keyword arguments are evaluated before new_task runs
              IF b \notin {"True", "False"} THEN Outcome(b, ag)
              ELSE new_task(ag, TaskRestartComponents)
    ELSE IF restart_required = "True" THEN Outcome("None", ag)
    ELSE IF task_can_be_offered(ag, TaskRunCalicoNode, offer)
         THEN new_task(ag, TaskRunCalicoNode)
    ELSE IF task_can_be_offered(ag, TaskRunCalicoLibnetwork, offer)
         THEN new_task(ag, TaskRunCalicoLibnetwork)
    ELSE Outcome("None", ag)

\* The ladder without the two waits for the install tasks to finish.
handle_offer_ungated(agent, offer) ==
    IF task_can_be_offered(agent, TaskRunEtcdProxy, offer)
        THEN new_task(agent, TaskRunEtcdProxy)
    ELSE IF task_can_be_offered(agent, TaskInstallNetmodules, offer)
        THEN new_task(agent, TaskInstallNetmodules)
    ELSE IF task_running(agent, TaskRunEtcdProxy)
        THEN Outcome("None", agent)
    ELSE IF task_can_be_offered(agent, TaskInstallDockerClusterStore, offer)
        THEN new_task(agent, TaskInstallDockerClusterStore)
    ELSE restart_rungs(agent, offer)

\* Agent.handle_offer
handle_offer(agent, offer) ==
    IF task_can_be_offered(agent, TaskRunEtcdProxy, offer)
        THEN new_task(agent, TaskRunEtcdProxy)
    ELSE IF task_can_be_offered(agent, TaskInstallNetmodules, offer)
        THEN new_task(agent, TaskInstallNetmodules)
    ELSE IF task_running(agent, TaskRunEtcdProxy)
        THEN Outcome("None", agent)
    ELSE IF task_can_be_offered(agent, TaskInstallDockerClusterStore, offer)
        THEN new_task(agent, TaskInstallDockerClusterStore)
    ELSE IF ~task_finished(agent, TaskInstallNetmodules)
        THEN Outcome("None", agent)
    ELSE IF ~task_finished(agent, TaskInstallDockerClusterStore)
        THEN Outcome("None", agent)
    ELSE restart_rungs(agent, offer)

\* handle_update looking the task up with dict.get and returning when there
\* is none: an update for an untracked or unknown type is dropped.
handle_update_get(agent, update) ==
    LET name == name_from_task_id(update) IN
    IF name \notin DOMAIN agent.tasks \/ agent.tasks[name] = None
    THEN Outcome("updated", agent)
    ELSE
    LET task == update_task(agent.tasks[name], update)
        ag2 == [agent EXCEPT !.tasks[name] = task]
    IN
    IF name = TaskRestartComponents.name /\ ~running(task)
    THEN Outcome("updated",
            [ag2 EXCEPT !.tasks =
                (TaskInstallDockerClusterStore.cls :> None) @@
                [ag2.tasks EXCEPT ![TaskInstallNetmodules.name] = None]])
    ELSE Outcome("updated", ag2)

\* Agent.handle_update
handle_update(agent, update) ==
    LET name == name_from_task_id(update) IN
    IF name \notin DOMAIN agent.tasks THEN Outcome("KeyError", agent)
    ELSE
    LET ag1 == IF agent.tasks[name] = None
               THEN new_task(agent, CHOOSE c \in TASK_CLASSES : c.name = name).agent
               ELSE agent
        task == update_task(ag1.tasks[name], update)
        ag2 == [ag1 EXCEPT !.tasks[name] = task]
    IN
    IF name = TaskRestartComponents.name /\ ~running(task)
    THEN Outcome("updated",
            [ag2 EXCEPT !.tasks =
                (TaskInstallDockerClusterStore.cls :> None) @@
                [ag2.tasks EXCEPT ![TaskInstallNetmodules.name] = None]])
    ELSE Outcome("updated", ag2)

(***************************************************************************)
(* CalicoScheduler                                                         *)
(***************************************************************************)
\* offer.slave_id.value: the node's id string.
IdKey(n) == <<"value", n>>

\* CalicoScheduler.get_agent: the agents mapping after the lookup.
get_agent(ags, agent_id) ==
    IF agent_id \in DOMAIN ags THEN ags ELSE (agent_id :> Agent(agent_id)) @@ ags

\* What the callers of the handlers observe of a call.
Ret(call, value) == [call |-> call, value |-> value]

Init ==
    /\ agents = << >>
    /\ ret = Ret("none", "NoCall")
    /\ launched = {}

\* CalicoScheduler.resourceOffers, for one offer of the batch.
ResourceOffers(n, offer) ==
    LET ags == get_agent(agents, IdKey(n))
        out == handle_offer(ags[IdKey(n)], offer)
    IN  /\ agents' = [ags EXCEPT ![IdKey(n)] = out.agent]
        /\ ret' = Ret("handle_offer", out.ret)
        /\ launched' = IF out.ret \in TaskNames THEN launched \cup {n} ELSE launched

\* Agent.handle_update on the agent that tracks node n's tasks.
HandleUpdate(n, update) ==
    LET ags == get_agent(agents, IdKey(n))
        out == handle_update(ags[IdKey(n)], update)
    IN  /\ agents' = [ags EXCEPT ![IdKey(n)] = out.agent]
        /\ ret' = Ret("handle_update", out.ret)
        /\ UNCHANGED launched

\* The agent whose ladder the unit specification drives.
UnitNode == CHOOSE n \in Nodes : TRUE

Next ==
    \/ \E offer \in Offers : ResourceOffers(UnitNode, offer)
    \/ \E update \in Updates : HandleUpdate(UnitNode, update)

\* One Agent under every sequence of offers and status updates.
Spec == Init /\ [][Next]_vars

(***************************************************************************)
(* Restart admission                                                       *)
(***************************************************************************)
\* CalicoScheduler.__init__(max_concurrent_restarts=1)
max_concurrent_restarts == 1

\* The attributes CalicoScheduler.__init__ sets on the scheduler.
SchedulerAttributes == {"agents", "max_concurrent_restart"}

\* CalicoScheduler.can_restart: "True", "False" or the exception raised.
\* The generator iterates the keys of self.agents (agent id strings), and a
\* string has no attribute restarting.
can_restart(ags, agent) ==
    IF agent.restarting THEN "True"
    ELSE IF DOMAIN ags # {} THEN "AttributeError"
    ELSE IF "max_num_concurrent_restart" \notin SchedulerAttributes THEN "AttributeError"
    ELSE IF 0 < max_concurrent_restarts THEN "True" ELSE "False"

\* The Agent a caller holds for node n: the cached one, or one of its own.
AgentOf(ags, n) == get_agent(ags, IdKey(n))[IdKey(n)]

\* A call of can_restart for node n's agent.
CanRestart(n) ==
    /\ ret' = Ret("can_restart", can_restart(agents, AgentOf(agents, n)))
    /\ UNCHANGED <<agents, launched>>

NextSched ==
    \/ \E n \in Nodes, offer \in Offers : ResourceOffers(n, offer)
    \/ \E n \in Nodes : CanRestart(n)

\* The scheduler with every node sending offers, and restart admission asked.
SpecSched == Init /\ [][NextSched]_vars

(***************************************************************************)
(* A well-behaved cluster: every offer satisfies every task type, every    *)
(* launched daemon is reported running, every launched one-shot task is    *)
(* reported finished with no restart required.                             *)
(***************************************************************************)
FullOffer(n) == ResourceOffers(n, TaskNames)

Benign(task, task_class, update) ==
    /\ task # None
    /\ ~update.restart_required
    /\ IF task_class.persistent
       THEN task.state = "not-started" /\ update.state = "running"
       ELSE \/ task.state = "not-started" /\ update.state \in {"running", "finished"}
            \/ task.state = "running" /\ update.state = "finished"

BenignUpdate(n) ==
    /\ IdKey(n) \in DOMAIN agents
    /\ \E update \in Updates, c \in TASK_CLASSES :
        /\ c.name = update.name
        /\ Benign(agents[IdKey(n)].tasks[c.name], c, update)
        /\ HandleUpdate(n, update)

NextLive ==
    \/ \E n \in Nodes : FullOffer(n)
    \/ \E n \in Nodes : BenignUpdate(n)

\* Offers recur for as long as resources are free, and the driver delivers
\* every status update.
SpecLive ==
    /\ Init /\ [][NextLive]_vars
    /\ \A n \in Nodes : WF_vars(FullOffer(n)) /\ WF_vars(BenignUpdate(n))

(***************************************************************************)
(* Properties                                                              *)
(***************************************************************************)
\* The agent of the unit specification, before and after a step.
Unit == AgentOf(agents, UnitNode)
UnitAfter == AgentOf(agents', UnitNode)

\* A step in which handle_offer runs on the unit agent with some offer.
OfferStep(offer) == ResourceOffers(UnitNode, offer)

EtcdOrNetmodules == {TaskRunEtcdProxy.name, TaskInstallNetmodules.name}
Downstream == TaskNames \ EtcdOrNetmodules
DaemonOrDriver == {TaskRunCalicoNode.name, TaskRunCalicoLibnetwork.name}

\* C1: for an agent that starts with no tracked instance, the first task
\* handle_offer returns is the etcd-proxy or the netmodules task.
C1_FirstLaunchEtcdOrNetmodules ==
    [][\A n \in Nodes :
        (n \notin launched /\ n \in launched') => ret'.value \in EtcdOrNetmodules]_vars

\* C2: while the etcd-proxy task is not running, handle_offer returns the
\* etcd-proxy task, the netmodules task or none, never a downstream task.
C2_StallsWithoutEtcd ==
    [][\A offer \in Offers :
        (OfferStep(offer) /\ ~task_running(Unit, TaskRunEtcdProxy))
            => ret'.value \in EtcdOrNetmodules \cup {"None"}]_vars

\* C3: etcd-proxy running, both install tasks finished with no restart
\* required, no calico-node instance tracked, an offer that satisfies every
\* task type: handle_offer returns the calico-node task.
ScenarioB(agent) ==
    /\ task_running(agent, TaskRunEtcdProxy)
    /\ task_finished(agent, TaskInstallNetmodules)
    /\ task_finished(agent, TaskInstallDockerClusterStore)
    /\ ~agent.tasks[TaskInstallNetmodules.name].restart_required
    /\ ~agent.tasks[TaskInstallDockerClusterStore.name].restart_required
    /\ agent.tasks[TaskRunCalicoNode.name] = None

C3_ScenarioBLaunchesCalicoNode ==
    [][(OfferStep(TaskNames) /\ ScenarioB(Unit))
            => ret'.value = TaskRunCalicoNode.name]_vars

\* C4: after a status update of the restart task that leaves it not
\* running, neither the netmodules nor the cluster-store instance is
\* tracked, and both task types need scheduling.
Tracked(agent, task_class) ==
    /\ task_class.name \in DOMAIN agent.tasks
    /\ agent.tasks[task_class.name] # None

RestartUpdateStep ==
    \E update \in Updates :
        /\ update.name = TaskRestartComponents.name
        /\ HandleUpdate(UnitNode, update)
        /\ ~task_running(UnitAfter, TaskRestartComponents)

C4_RestartUpdateClearsInstallTasks ==
    [][RestartUpdateStep =>
        /\ ~Tracked(UnitAfter, TaskInstallNetmodules)
        /\ ~Tracked(UnitAfter, TaskInstallDockerClusterStore)
        /\ task_needs_scheduling(UnitAfter, TaskInstallNetmodules)
        /\ task_needs_scheduling(UnitAfter, TaskInstallDockerClusterStore)]_vars

\* C6: can_restart returns true for an agent that is restarting, and
\* otherwise true exactly when fewer agents than max_concurrent_restarts are
\* restarting; it never fails.
NumRestarting(ags) == Cardinality({k \in DOMAIN ags : ags[k].restarting})

CanRestartReference(ags, agent) ==
    IF agent.restarting \/ NumRestarting(ags) < max_concurrent_restarts
    THEN "True" ELSE "False"

C6_CanRestartDecides ==
    [][\A n \in Nodes :
        CanRestart(n) => ret'.value = CanRestartReference(agents, AgentOf(agents, n))]_vars

\* C7: when handle_offer gets to the restart decision with the netmodules
\* instance requiring a restart, no restart instance tracked and an offer
\* that satisfies the restart task, it returns the restart task and the
\* agent is restarting afterwards; restarting only becomes false in a
\* handle_offer that finds no restart required.
ReachesRestartDecision(agent, offer) ==
    /\ ~task_can_be_offered(agent, TaskRunEtcdProxy, offer)
    /\ ~task_can_be_offered(agent, TaskInstallNetmodules, offer)
    /\ ~task_running(agent, TaskRunEtcdProxy)
    /\ ~task_can_be_offered(agent, TaskInstallDockerClusterStore, offer)
    /\ task_finished(agent, TaskInstallNetmodules)
    /\ task_finished(agent, TaskInstallDockerClusterStore)

RestartRequired(agent) ==
    \/ agent.tasks[TaskInstallNetmodules.name].restart_required
    \/ agent.tasks[TaskInstallDockerClusterStore.name].restart_required

ScenarioC(agent, offer) ==
    /\ ReachesRestartDecision(agent, offer)
    /\ agent.tasks[TaskInstallNetmodules.name].restart_required
    /\ agent.tasks[TaskRestartComponents.name] = None
    /\ can_accept_offer(TaskRestartComponents, offer)

C7_RestartLaunchSetsRestarting ==
    [][/\ \A offer \in Offers :
            (OfferStep(offer) /\ ScenarioC(Unit, offer))
                => ret'.value = TaskRestartComponents.name /\ UnitAfter.restarting
       /\ (Unit.restarting /\ ~UnitAfter.restarting)
            => ret'.call = "handle_offer" /\ ~RestartRequired(Unit)]_vars

\* C8: while an install instance requires a restart and no restart instance
\* has been tracked and stopped running, handle_offer returns neither the
\* calico-node nor the calico-libnetwork task.
RestartDone(agent) ==
    /\ Tracked(agent, TaskRestartComponents)
    /\ ~task_running(agent, TaskRestartComponents)

C8_NoDaemonWhileRestartRequired ==
    \A offer \in AllOffers :
        (RestartRequired(Unit) /\ ~RestartDone(Unit))
            => handle_offer(Unit, offer).ret \notin DaemonOrDriver

\* A restart is required, none has been tracked, and handle_offer has got
\* to the restart decision.
C8_Witness ==
    /\ ret = Ret("handle_offer", "KeyError")
    /\ RestartRequired(Unit)
    /\ ~Tracked(Unit, TaskRestartComponents)
    /\ task_finished(Unit, TaskInstallNetmodules)
    /\ task_finished(Unit, TaskInstallDockerClusterStore)

LadderAtRestart(agent) ==
    /\ task_running(agent, TaskRestartComponents)
    /\ task_running(agent, TaskRunEtcdProxy)
    /\ task_finished(agent, TaskInstallNetmodules)
    /\ task_finished(agent, TaskInstallDockerClusterStore)

Launched(n, task_class) == Tracked(AgentOf(agents, n), task_class)

C10_RolloutConverges ==
    \A n \in Nodes :
        <>(Launched(n, TaskRunCalicoNode) /\ <>Launched(n, TaskRunCalicoLibnetwork))

\* C11: a tracked one-shot instance that failed, or a tracked daemon instance
\* that is not running, is launched again by an offer that satisfies its
\* type while the other tasks keep their states.  Stated for the offers that
\* satisfy that type alone, in the states where the documented ladder has
\* nothing to wait for before the type's rung: a declined offer leaves the
\* agent as it was, so an offer that is declined once is declined for ever.
NeedsRecovery(agent, task_class) ==
    /\ Tracked(agent, task_class)
    /\ IF task_class.persistent
       THEN ~running(agent.tasks[task_class.name])
       ELSE failed(agent.tasks[task_class.name])

InstallDone(agent) ==
    /\ task_running(agent, TaskRunEtcdProxy)
    /\ task_finished(agent, TaskInstallNetmodules)
    /\ task_finished(agent, TaskInstallDockerClusterStore)

UpstreamReady(agent, task_class) ==
    CASE task_class = TaskRunEtcdProxy -> TRUE
      [] task_class = TaskInstallNetmodules -> TRUE
      [] task_class = TaskInstallDockerClusterStore ->
            task_running(agent, TaskRunEtcdProxy)
      [] task_class = TaskRestartComponents ->
            InstallDone(agent) /\ RestartRequired(agent)
      [] task_class = TaskRunCalicoNode ->
            InstallDone(agent) /\ ~RestartRequired(agent)
      [] task_class = TaskRunCalicoLibnetwork ->
            /\ InstallDone(agent) /\ ~RestartRequired(agent)
            /\ task_running(agent, TaskRunCalicoNode)

C11_LocalRecovery ==
    [][\A c \in TASK_CLASSES :
        (/\ OfferStep({c.name})
         /\ NeedsRecovery(Unit, c)
         /\ UpstreamReady(Unit, c))
            => ret'.value = c.name]_vars

(***************************************************************************)
(* Status update routing                                                   *)
(***************************************************************************)
\* update.slave_id: the SlaveID message itself, not its value string.
MsgKey(n) == <<"SlaveID", n>>

\* CalicoScheduler.statusUpdate.  get_agent is handed the SlaveID message
\* as the key: where messages hash by value the agent cached under that
\* message handles the update, where they do not hash the dict lookup
\* raises TypeError.
StatusUpdate(n, update) ==
    \/ LET ags == get_agent(agents, MsgKey(n))
           out == handle_update(ags[MsgKey(n)], update)
       IN  /\ agents' = [ags EXCEPT ![MsgKey(n)] = out.agent]
           /\ ret' = Ret("handle_update", out.ret)
           /\ UNCHANGED launched
    \/ /\ ret' = Ret("get_agent", "TypeError")
       /\ UNCHANGED <<agents, launched>>

\* A status update addressed to a task that handle_offer has launched on
\* node n.
LaunchedUpdate(n) ==
    \E update \in Updates :
        /\ IdKey(n) \in DOMAIN agents
        /\ update.name \in TaskNames
        /\ agents[IdKey(n)].tasks[update.name] # None
        /\ StatusUpdate(n, update)

NextRoute ==
    \/ \E offer \in Offers : ResourceOffers(UnitNode, offer)
    \/ LaunchedUpdate(UnitNode)

\* The scheduler's two entry points for one node: offers, and the status
\* updates of the tasks launched there.
SpecRoute == Init /\ [][NextRoute]_vars

\* C12: a status update for a task of node n changes the run state of the
\* task tracked by the Agent that resourceOffers uses for n, and the
\* scheduler holds one Agent for n.
AgentsOfNode(ags, n) == {k \in DOMAIN ags : k[2] = n}

C12_UpdateReachesOfferAgent ==
    [][\A update \in Updates :
        (/\ IdKey(UnitNode) \in DOMAIN agents
         /\ update.name \in TaskNames
         /\ agents[IdKey(UnitNode)].tasks[update.name] # None
         /\ StatusUpdate(UnitNode, update))
            => /\ agents'[IdKey(UnitNode)].tasks[update.name].state = update.state
               /\ Cardinality(AgentsOfNode(agents', UnitNode)) = 1]_vars

\* C13: when handle_offer returns none the agent's tasks mapping is
\* unchanged; when it returns a task of type T only the entry of T has
\* changed, and it holds the new instance.
C13_OfferFrame ==
    \A offer \in AllOffers :
        LET out == handle_offer(Unit, offer) IN
        /\ out.ret = "None" => out.agent.tasks = Unit.tasks
        /\ out.ret \in TaskNames =>
            /\ DOMAIN out.agent.tasks = DOMAIN Unit.tasks
            /\ out.agent.tasks[out.ret] = NewInstance
            /\ \A k \in DOMAIN Unit.tasks \ {out.ret} :
                    out.agent.tasks[k] = Unit.tasks[k]

\* handle_offer has declined an offer on an agent that has launched a task
\* before, tracks instances and has a task type that needs scheduling.
C13_Witness ==
    /\ ret = Ret("handle_offer", "None")
    /\ UnitNode \in launched
    /\ \E c \in TASK_CLASSES : Tracked(Unit, c) /\ ~task_needs_scheduling(Unit, c)
    /\ \E c \in TASK_CLASSES : task_needs_scheduling(Unit, c)

\* C14: a status update that names a known task type of which the agent
\* tracks no instance is not an error and is not dropped: afterwards an
\* instance of that type is tracked and is in the update's run state.
KnownUpdates == {u \in Updates : u.name \in TaskNames}

C14_UpdateCreatesInstance ==
    \A update \in KnownUpdates :
        Unit.tasks[update.name] = None =>
            LET out == handle_update(Unit, update) IN
            /\ out.ret = "updated"
            /\ out.agent.tasks[update.name] # None
            /\ out.agent.tasks[update.name].state = update.state
            /\ out.agent.tasks[update.name].restart_required = update.restart_required

\* An agent that has launched nothing tracks an instance: a status update
\* has created it.
C14_Witness ==
    /\ ret = Ret("handle_update", "updated")
    /\ UnitNode \notin launched
    /\ \E c \in TASK_CLASSES : Tracked(Unit, c)

\* C15: at most one instance of a task type launched by the scheduler is live
\* on an agent: handle_offer does not return a task type whose tracked
\* instance is still not-started or is running.
Live(agent, task_class) ==
    /\ Tracked(agent, task_class)
    /\ agent.tasks[task_class.name].state \in {"not-started", "running"}

C15_OneLiveInstance ==
    [][\A offer \in Offers, c \in TASK_CLASSES :
        (OfferStep(offer) /\ Live(Unit, c)) => ret'.value # c.name]_vars

(***************************************************************************)
(* Rollout with configuration changes                                      *)
(***************************************************************************)
\* The status updates of a task that does not fail, where an install task
\* may report on finishing that a restart is required.
Lifecycle(task, task_class, update) ==
    /\ task # None
    /\ IF task_class.persistent
       THEN task.state = "not-started" /\ update.state = "running"
       ELSE \/ task.state = "not-started" /\ update.state \in {"running", "finished"}
            \/ task.state = "running" /\ update.state = "finished"

LifecycleUpdate(n) ==
    /\ IdKey(n) \in DOMAIN agents
    /\ \E update \in Updates, c \in TASK_CLASSES :
        /\ c.name = update.name
        /\ Lifecycle(agents[IdKey(n)].tasks[c.name], c, update)
        /\ HandleUpdate(n, update)

NextRestartLive ==
    \/ \E n \in Nodes : FullOffer(n)
    \/ \E n \in Nodes : LifecycleUpdate(n)

\* Offers that satisfy every task type recur, and the driver delivers every
\* status update.
SpecRestartLive ==
    /\ Init /\ [][NextRestartLive]_vars
    /\ \A n \in Nodes : WF_vars(FullOffer(n)) /\ WF_vars(LifecycleUpdate(n))

\* C16: the restart rung does not stall for ever: when a restart is required
\* on an agent whose restart task is not in flight, a restart task is
\* eventually launched there or the restart stops being required.
RestartPending(n) ==
    /\ IdKey(n) \in DOMAIN agents
    /\ RestartRequired(agents[IdKey(n)])
    /\ agents[IdKey(n)].tasks[TaskRestartComponents.name].state
            \in {"None", "finished", "failed"}

RestartLaunched(n) ==
    /\ IdKey(n) \in DOMAIN agents
    /\ agents[IdKey(n)].tasks[TaskRestartComponents.name] = NewInstance

RestartNotRequired(n) ==
    /\ IdKey(n) \in DOMAIN agents
    /\ ~RestartRequired(agents[IdKey(n)])

C16_RestartRungProgress ==
    \A n \in Nodes :
        RestartPending(n) ~> (RestartLaunched(n) \/ RestartNotRequired(n))

\* C17: handle_offer returns the restart task, the calico-node task or the
\* calico-libnetwork task only when the tracked netmodules instance and the
\* tracked docker-cluster-store instance are both finished.  Checked for
\* every way of getting past the two waits: a call that returns one of the
\* three tasks, or that fails in the restart decision, starts from a state
\* where both are finished.
PastInstallWaits ==
    {TaskRestartComponents.name, TaskRunCalicoNode.name,
     TaskRunCalicoLibnetwork.name, "KeyError", "AttributeError"}

BothInstallsFinished(agent) ==
    /\ task_finished(agent, TaskInstallNetmodules)
    /\ task_finished(agent, TaskInstallDockerClusterStore)

C17_DownstreamOnlyAfterInstall ==
    \A offer \in AllOffers :
        handle_offer(Unit, offer).ret \in PastInstallWaits
            => BothInstallsFinished(Unit)

\* handle_offer has stalled on the netmodules install: the etcd gate was
\* passed, nothing was launched, and the netmodules instance is not finished.
C17_Witness ==
    /\ ret = Ret("handle_offer", "None")
    /\ ~task_running(Unit, TaskRunEtcdProxy)
    /\ Tracked(Unit, TaskInstallNetmodules)
    /\ ~task_finished(Unit, TaskInstallNetmodules)
    /\ \E offer \in Offers :
        /\ ~task_can_be_offered(Unit, TaskRunEtcdProxy, offer)
        /\ ~task_can_be_offered(Unit, TaskInstallNetmodules, offer)
        /\ ~task_can_be_offered(Unit, TaskInstallDockerClusterStore, offer)

\* C18: the keys of an agent's tasks mapping are, in every reachable state,
\* exactly the six task-type names: no offer and no status update adds or
\* removes a key.
C18_TaskKeysFixed ==
    \A k \in DOMAIN agents : DOMAIN agents[k].tasks = TaskNames

\* C19: task_needs_scheduling agrees with the reference table over tracked
\* state and persistence: true when no instance is tracked; for a persistent
\* type true exactly when the instance is not running; for a one-shot type
\* true exactly when the instance is failed.
NeedsSchedulingTable(state, persistent) ==
    CASE state = "None"        -> TRUE
      [] state = "not-started" -> persistent
      [] state = "running"     -> FALSE
      [] state = "finished"    -> persistent
      [] state = "failed"      -> TRUE

C19_NeedsSchedulingTable ==
    \A c \in TASK_CLASSES :
        task_needs_scheduling(Unit, c)
            = NeedsSchedulingTable(Unit.tasks[c.name].state, c.persistent)

\* handle_offer has run on an agent that tracks a running and a finished
\* persistent instance and a finished and a failed one-shot instance.
C19_Witness ==
    /\ ret.call = "handle_offer"
    /\ \E c \in TASK_CLASSES : c.persistent /\ Unit.tasks[c.name].state = "running"
    /\ \E c \in TASK_CLASSES : c.persistent /\ Unit.tasks[c.name].state = "finished"
    /\ \E c \in TASK_CLASSES : ~c.persistent /\ Unit.tasks[c.name].state = "finished"
    /\ \E c \in TASK_CLASSES : ~c.persistent /\ Unit.tasks[c.name].state = "failed"

\* C20: a status update whose task identifier decodes to a name outside the
\* known task types is not dropped silently: handle_update ends in an error
\* and leaves every tracked instance of the agent as it was.
UnknownUpdates == {u \in Updates : name_from_task_id(u) \notin TaskNames}

C20_UnknownTypeUpdateFails ==
    \A update \in UnknownUpdates :
        LET out == handle_update(Unit, update) IN
        /\ out.ret = "KeyError"
        /\ out.agent.tasks = Unit.tasks

\* An update for an unknown type has failed on an agent that tracks an
\* instance launched from an offer.
C20_Witness ==
    /\ ret = Ret("handle_update", "KeyError")
    /\ UnitNode \in launched
    /\ \E c \in TASK_CLASSES : Tracked(Unit, c)

====
